---- MODULE Spec2Model ----
(***************************************************************************)
(* Ledger & market simulation engine of Fun.Run (backend/server.js, the    *)
(* revision with the cached file store, lines 405-1154): the Store, its    *)
(* normalizers, the persistence adapters (remote upsert row, cached file   *)
(* with debounced flush) and the ledger operations issue-coin, trade,      *)
(* set-referral and withdraw.                                              *)
(*                                                                         *)
(* Numbers.  A SOL amount is an integer count of 1/SolUnit SOL.  Request   *)
(* amounts are multiples of 0.01 SOL, so that the 1% fee and its percent   *)
(* splits are exact integers (the code computes them in doubles).  Token   *)
(* amounts, mc, ath and chart samples are the code's own integers.         *)
(* Strings carry no surrounding blanks, so String(x).trim() keeps them.    *)
(***************************************************************************)
EXTENDS Integers, Sequences, FiniteSets, TLC

\* ------------------------------------------------------------------ config
STARTING_MC_USD == 6500
TOTAL_SUPPLY_DEFAULT == 1000000000
CREATOR_PERCENT == 2
FEE_PCT == 1
TRADE_DEV_PCT == 40
TRADE_CREATOR_PCT == 40
TRADE_REF_PCT == 10
TRADE_RESERVE_PCT == 10
CREATE_DEV_PCT == 70
CREATE_REF_PCT == 20
CREATE_RESERVE_PCT == 10
OWNER_MAX_PERCENT == 20
DEV_WALLET == "DEV_TREASURY"
RESERVE_WALLET == "RESERVE_TREASURY"

\* literals of the code
PRICE_FLOOR == 1000
CHART_CAP == 60
LOG_CAP == 300
MIN_WALLET_LEN == 20
BUY_BUMP == 120
SELL_BUMP == 110

\* one SOL, and 0.01 SOL (the LIVE threshold of issue-coin), in model units
SolUnit == 100 * 1000
LIVE_MIN_SOL == SolUnit \div 100

\* ------------------------------------------------------------------ bounds
MaxOps == 4
MaxConcOps == 4
MaxFileOps == 3
MaxHandlers == 2
MaxFlushFail == 1
MaxCrash == 1

\* ------------------------------------------------------------------ values
EmptyMap == [k \in {} |-> 0]
Undefined == [undefined |-> TRUE]

Has(r, k) == k \in DOMAIN r
Get(m, k, d) == IF k \in DOMAIN m THEN m[k] ELSE d
Put(m, k, v) == (k :> v) @@ m

Max(a, b) == IF a >= b THEN a ELSE b
Min(a, b) == IF a <= b THEN a ELSE b

\* Math.round(n / d) for d > 0: halves go up, also for a negative n
Round(n, d) == (2 * n + d) \div (2 * d)

\* Array.prototype.unshift, slice(0, n), slice(-n)
Unshift(s, x) == <<x>> \o s
\* a slice that keeps the last n
SliceKeepLast(s, n) == IF Len(s) <= n THEN s ELSE SubSeq(s, Len(s) - n + 1, Len(s))
SliceHead(s, n) == IF Len(s) <= n THEN s ELSE SubSeq(s, 1, n)
\* a slice that keeps the oldest n
SliceKeepFirst(s, n) == IF Len(s) <= n THEN s ELSE SubSeq(s, 1, n)
SliceTail(s, n) == IF Len(s) <= n THEN s ELSE SubSeq(s, Len(s) - n + 1, Len(s))

\* index of the first element of s with s[i][k] = v, 0 when there is none
FindIdx(s, k, v) ==
    LET hits == {i \in 1..Len(s) : s[i][k] = v}
    IN IF hits = {} THEN 0 ELSE CHOOSE i \in hits : \A j \in hits : i <= j

RECURSIVE SumMap(_)
SumMap(m) ==
    IF DOMAIN m = {} THEN 0
    ELSE LET k == CHOOSE x \in DOMAIN m : TRUE
         IN m[k] + SumMap([x \in DOMAIN m \ {k} |-> m[x]])

\* ------------------------------------------------------------------ util
clampPct(n) == Max(0, Min(100, n))

\* x * pctToFrac(p)
PctOf(x, p) == (x * clampPct(p)) \div 100

defaultStore(t) ==
    [coins |-> <<>>,
     profiles |-> EmptyMap,
     referrals |-> EmptyMap,
     treasury |-> [devSol |-> 0, reserveSol |-> 0, updatedAt |-> t],
     logs |-> <<>>]

\* a creation time taken from the clock at every normalization
createdAtNow(c, t) == t

\* createdAt of line 580
createdAtOf(c, t) == Get(c, "createdAt", t)

ensureCoin(c, t, freshId) ==
    LET status == IF Has(c, "status") /\ c.status # "" THEN c.status ELSE "DRAFT"
        mc == Get(c, "mc", IF status = "LIVE" THEN STARTING_MC_USD ELSE 0)
        ath == Get(c, "ath", IF mc # 0 THEN mc ELSE STARTING_MC_USD)
        creator == Get(c, "creatorWallet", "")
        owner == Get(c, "owner", "")
    IN [id |-> IF Has(c, "id") /\ c.id # "" THEN c.id ELSE freshId,
        name |-> Get(c, "name", ""),
        symbol |-> Get(c, "symbol", ""),
        story |-> Get(c, "story", ""),
        logo |-> Get(c, "logo", ""),
        creatorWallet |-> IF creator # "" THEN creator ELSE owner,
        owner |-> IF owner # "" THEN owner ELSE creator,
        createdAt |-> createdAtOf(c, t),
        status |-> status,
        mc |-> mc,
        ath |-> ath,
        chart |-> IF Has(c, "chart") /\ Len(c.chart) > 0 THEN c.chart
                  ELSE <<mc, mc, mc, mc, mc>>,
        volumeSol |-> Get(c, "volumeSol", 0),
        creatorRewardsSol |-> Get(c, "creatorRewardsSol", 0),
        totalSupply |-> Get(c, "totalSupply", TOTAL_SUPPLY_DEFAULT),
        holders |-> Get(c, "holders", EmptyMap),
        lastTradeAt |-> Get(c, "lastTradeAt", 0)]

\* a normalizer that drops the referrer
ensureProfileUnreferred(p, wallet, t) ==
    [wallet |-> IF wallet # "" THEN wallet ELSE Get(p, "wallet", ""),
     holdings |-> Get(p, "holdings", <<>>),
     txs |-> Get(p, "txs", <<>>),
     rewards |-> Get(p, "rewards", [totalSol |-> 0, byCoin |-> EmptyMap]),
     referralRewards |-> Get(p, "referralRewards", [totalSol |-> 0, byWallet |-> EmptyMap]),
     referrer |-> "",
     updatedAt |-> t]

ensureProfile(p, wallet, t) ==
    [wallet |-> IF wallet # "" THEN wallet ELSE Get(p, "wallet", ""),
     holdings |-> Get(p, "holdings", <<>>),
     txs |-> Get(p, "txs", <<>>),
     rewards |-> Get(p, "rewards", [totalSol |-> 0, byCoin |-> EmptyMap]),
     referralRewards |-> Get(p, "referralRewards", [totalSol |-> 0, byWallet |-> EmptyMap]),
     referrer |-> Get(p, "referrer", ""),
     updatedAt |-> t]

ProfileOf(store, w) == Get(store.profiles, w, Undefined)

logPush(store, item) ==
    [store EXCEPT !.logs = SliceHead(Unshift(store.logs, item), LOG_CAP)]

\* a load that forgets the holders of the coins
normalizeStoreLossy(store, t) ==
    LET d == defaultStore(t)
        coins == Get(store, "coins", d.coins)
    IN [coins |-> [i \in 1..Len(coins) |->
                     [ensureCoin(coins[i], t, "") EXCEPT !.holders = EmptyMap]],
        profiles |-> Get(store, "profiles", d.profiles),
        referrals |-> Get(store, "referrals", d.referrals),
        treasury |-> Get(store, "treasury", d.treasury),
        logs |-> Get(store, "logs", d.logs)]

normalizeStore(store, t) ==
    LET d == defaultStore(t)
        coins == Get(store, "coins", d.coins)
    IN [coins |-> [i \in 1..Len(coins) |-> ensureCoin(coins[i], t, "")],
        profiles |-> Get(store, "profiles", d.profiles),
        referrals |-> Get(store, "referrals", d.referrals),
        treasury |-> Get(store, "treasury", d.treasury),
        logs |-> Get(store, "logs", d.logs)]

ensureTreasury(store, t) ==
    [store EXCEPT !.treasury =
        [devSol |-> Get(store.treasury, "devSol", 0),
         reserveSol |-> Get(store.treasury, "reserveSol", 0),
         updatedAt |-> t]]

findCoinIdx(store, coinId) == FindIdx(store.coins, "id", coinId)

\* creditCreatorReward(store, coin, amountSol), coin being store.coins[ci]
\* a credit that reaches the total and not the coin's entry
creditCreatorRewardTotalOnly(store, ci, amountSol, t) ==
    LET coin == store.coins[ci]
        creator == IF coin.creatorWallet # "" THEN coin.creatorWallet ELSE coin.owner
        p == ensureProfile(ProfileOf(store, creator), creator, t)
        p2 == [p EXCEPT !.rewards =
                 [totalSol |-> Get(p.rewards, "totalSol", 0) + amountSol,
                  byCoin |-> Get(p.rewards, "byCoin", EmptyMap)]]
    IN IF creator = "" \/ amountSol <= 0 THEN store
       ELSE [store EXCEPT
               !.profiles = Put(store.profiles, creator, p2),
               !.coins[ci].creatorRewardsSol = coin.creatorRewardsSol + amountSol]

creditCreatorReward(store, ci, amountSol, t) ==
    LET coin == store.coins[ci]
        creator == IF coin.creatorWallet # "" THEN coin.creatorWallet ELSE coin.owner
        p == ensureProfile(ProfileOf(store, creator), creator, t)
        p2 == [p EXCEPT !.rewards =
                 [totalSol |-> Get(p.rewards, "totalSol", 0) + amountSol,
                  byCoin |-> Put(Get(p.rewards, "byCoin", EmptyMap), coin.id,
                                 Get(Get(p.rewards, "byCoin", EmptyMap), coin.id, 0) + amountSol)]]
    IN IF creator = "" \/ amountSol <= 0 THEN store
       ELSE [store EXCEPT
               !.profiles = Put(store.profiles, creator, p2),
               !.coins[ci].creatorRewardsSol = coin.creatorRewardsSol + amountSol]

creditReferralReward(store, traderWallet, amountSol, t) ==
    LET w == traderWallet
        ref == Get(store.referrals, w, "")
        rp == ensureProfile(ProfileOf(store, ref), ref, t)
        rp2 == [rp EXCEPT !.referralRewards =
                 [totalSol |-> Get(rp.referralRewards, "totalSol", 0) + amountSol,
                  byWallet |-> Put(Get(rp.referralRewards, "byWallet", EmptyMap), w,
                                   Get(Get(rp.referralRewards, "byWallet", EmptyMap), w, 0) + amountSol)]]
    IN IF w = "" \/ amountSol <= 0 THEN store
       ELSE IF ref = "" \/ Len(ref) < MIN_WALLET_LEN THEN store
       ELSE [store EXCEPT !.profiles = Put(store.profiles, ref, rp2)]

\* a fee of nothing
takeFeeNone(solAmount) == [feeSol |-> 0, netSol |-> solAmount]

takeFee(solAmount) ==
    LET fee == PctOf(solAmount, FEE_PCT)
    IN [feeSol |-> fee, netSol |-> Max(0, solAmount - fee)]

\* ------------------------------------------------------------------ arithmetic on amounts
\* request amounts are multiples of SolGrain (0.01 SOL)
SolGrain == SolUnit \div 100

\* Math.floor(sol * k), sol in SOL
FloorSolTimes(sol, k) ==
    (sol \div SolUnit) * k
    + (((sol % SolUnit) \div SolGrain) * k) \div (SolUnit \div SolGrain)

\* Math.round(Math.max(PRICE_FLOOR, mc + sol * k)) for an integer mc (k < 0 for a sell)
BumpMc(mc, sol, k) ==
    Max(PRICE_FLOOR, mc + Round((sol \div SolGrain) * k, SolUnit \div SolGrain))

\* The same update in doubles, for a trade of sol * 10^308 (huge): the amount is
\* a finite double, its product with either bump is above Number.MAX_VALUE and
\* is Infinity.  A double is then a number, or Infinity;
\* JSON has null for what is not finite.
Num(n) == [kind |-> "number", v |-> n]
Infinity == [kind |-> "Infinity"]
JsonNull == [kind |-> "null"]

\* safeNum(n, d): Number(null) is 0 and is finite, Infinity gives the default
safeNum(x, d) ==
    CASE x.kind = "number" -> x.v
      [] x.kind = "null" -> 0
      [] OTHER -> d

\* JSON.parse(JSON.stringify(x)) of a double
JsonNumber(x) == IF x.kind = "Infinity" THEN JsonNull ELSE x

\* coin.mc as lines 1034 (k = BUY_BUMP) and 1064 (k = -SELL_BUMP) leave it:
\* mc + Infinity is Infinity, and Math.max(1000, mc - Infinity) is 1000
TradedMc(mc, sol, huge, k) ==
    IF ~huge THEN Num(BumpMc(mc, sol, k))
    ELSE IF k > 0 THEN Infinity
    ELSE Num(PRICE_FLOOR)

\* the mc of the LIVE coin that the next readDB returns: in file mode writeDB
\* has normalized the store (ensureCoin, line 582), in remote mode the row went
\* through JSON and readDB normalizes what it selected
StoredMc(m, mode_) ==
    IF mode_ = "file" THEN safeNum(m, STARTING_MC_USD)
    ELSE safeNum(JsonNumber(m), STARTING_MC_USD)

\* String.prototype.toUpperCase on the symbols the model submits
toUpperCase(s) ==
    CASE s = "fun" -> "FUN"
      [] s = "x" -> "X"
      [] OTHER -> s

\* ------------------------------------------------------------------ issue-coin
\* the checks made before readDB; "" when the request passes them
CreateInvalid(req) ==
    IF req.name = "" \/ toUpperCase(req.symbol) = "" \/ req.creatorWallet = ""
    THEN "name/symbol/creatorWallet required" ELSE ""

CreateBody(store0, req, t, uid1, uid2) ==
    LET creatorWallet == req.creatorWallet
        initialSol == req.initialSol
        s1 == ensureTreasury(store0, t)
        status == IF initialSol >= LIVE_MIN_SOL THEN "LIVE" ELSE "DRAFT"
        charged == status = "LIVE" /\ initialSol > 0
        createFeeSol == IF charged THEN takeFee(initialSol).feeSol ELSE 0
        dev == PctOf(createFeeSol, CREATE_DEV_PCT)
        ref == PctOf(createFeeSol, CREATE_REF_PCT)
        reserve == PctOf(createFeeSol, CREATE_RESERVE_PCT)
        s2 == IF ~charged THEN s1
              ELSE logPush(
                     creditReferralReward(
                       [s1 EXCEPT !.treasury.devSol = @ + dev,
                                  !.treasury.reserveSol = @ + reserve],
                       creatorWallet, ref, t),
                     [t |-> t, type |-> "create_fee", wallet |-> creatorWallet,
                      feeSol |-> createFeeSol,
                      split |-> [dev |-> dev, ref |-> ref, reserve |-> reserve],
                      devWallet |-> DEV_WALLET, reserveWallet |-> RESERVE_WALLET])
        startMc == IF status = "LIVE" THEN STARTING_MC_USD ELSE 0
        coin0 == ensureCoin(
                   [id |-> uid1, name |-> req.name, symbol |-> toUpperCase(req.symbol),
                    story |-> req.story, logo |-> req.logo,
                    creatorWallet |-> creatorWallet, owner |-> creatorWallet,
                    status |-> status, createdAt |-> t,
                    mc |-> startMc, ath |-> startMc,
                    chart |-> <<startMc, startMc, startMc, startMc, startMc>>,
                    volumeSol |-> IF status = "LIVE" THEN initialSol ELSE 0,
                    totalSupply |-> TOTAL_SUPPLY_DEFAULT,
                    holders |-> EmptyMap],
                   t, uid1)
        creatorTokens == (coin0.totalSupply * CREATOR_PERCENT) \div 100
        coin == [coin0 EXCEPT !.holders =
                   Put(@, creatorWallet, Get(@, creatorWallet, 0) + creatorTokens)]
        s3 == [s2 EXCEPT !.coins = Unshift(@, coin)]
        p == ensureProfile(ProfileOf(s3, creatorWallet), creatorWallet, t)
        hi == FindIdx(p.holdings, "coinId", coin.id)
        holdings == IF hi # 0
                    THEN [p.holdings EXCEPT ![hi].amount = @ + creatorTokens]
                    ELSE Unshift(p.holdings,
                           [coinId |-> coin.id, symbol |-> coin.symbol,
                            amount |-> creatorTokens, lastAt |-> t])
        p2 == [p EXCEPT !.holdings = holdings,
                        !.txs = Unshift(@, [id |-> uid2, t |-> t, coinId |-> coin.id,
                                            side |-> "CREATE", sol |-> initialSol,
                                            feeSol |-> createFeeSol])]
        s4 == [s3 EXCEPT !.profiles = Put(@, creatorWallet, p2)]
        s5 == logPush(s4, [t |-> t, type |-> "coin_create", coinId |-> coin.id,
                           creatorWallet |-> creatorWallet, status |-> status,
                           initialSol |-> initialSol])
    IN [store |-> s5, wrote |-> TRUE,
        res |-> [ok |-> TRUE, error |-> "", sol |-> 0, coinId |-> coin.id, txId |-> uid2]]

\* ------------------------------------------------------------------ trade
TradeInvalid(req) ==
    IF req.wallet = "" \/ req.coinId = "" \/ req.side = "" \/ req.sol <= 0
    THEN "wallet/coinId/side/sol required"
    ELSE IF req.side # "buy" /\ req.side # "sell" THEN "side must be buy or sell"
    ELSE ""

\* the quantity with tokensPerSol left as the quotient
TradeTokensUnclamped(coin, sol) ==
    Max(1, FloorSolTimes(sol, coin.totalSupply \div Max(coin.mc, PRICE_FLOOR)))

\* the quantity of lines 1017-1019, from the coin as it is before the trade
TradeTokens(coin, sol) ==
    LET mc == Max(IF coin.mc # 0 THEN coin.mc ELSE STARTING_MC_USD, PRICE_FLOOR)
        tokensPerSol == Max(1, coin.totalSupply \div mc)
    IN Max(1, FloorSolTimes(sol, tokensPerSol))

Refuse(store, error) ==
    [store |-> store, wrote |-> FALSE,
     res |-> [ok |-> FALSE, error |-> error, sol |-> 0, coinId |-> "", txId |-> ""]]

\* a buy that leaves ath as it was
NextAthKept(coin, mc2) == coin.ath

\* coin.ath after a buy that took the coin to mc2 (line 1035)
NextAth(coin, mc2) == Max(IF coin.ath # 0 THEN coin.ath ELSE mc2, mc2)

\* the buy branch, lines 1021-1051: s is the store after the fee credits, p the
\* profile object taken at line 1002
BuyBranch(s, ci, p, req, tokens, feeSol, split, t, uid1) ==
    LET wallet == req.wallet
        coinId == req.coinId
        sol == req.sol
        coin == s.coins[ci]
        hi == FindIdx(p.holdings, "coinId", coinId)
        holdings == IF hi # 0
                    THEN [p.holdings EXCEPT ![hi].amount = @ + tokens, ![hi].lastAt = t]
                    ELSE Unshift(p.holdings,
                           [coinId |-> coinId, symbol |-> coin.symbol,
                            amount |-> tokens, lastAt |-> t])
        mc2 == BumpMc(coin.mc, sol, BUY_BUMP)
        coin2 == [coin EXCEPT
                    !.holders = Put(@, wallet, Get(@, wallet, 0) + tokens),
                    !.volumeSol = @ + sol,
                    !.mc = mc2,
                    !.ath = NextAth(coin, mc2),
                    !.chart = SliceTail(Append(@, mc2), CHART_CAP),
                    !.lastTradeAt = t]
        p2 == [p EXCEPT !.holdings = holdings,
                        !.txs = Unshift(@, [id |-> uid1, t |-> t, coinId |-> coinId,
                                            side |-> "BUY", sol |-> sol,
                                            tokens |-> tokens, feeSol |-> feeSol]),
                        !.updatedAt = t]
        s2 == logPush([s EXCEPT !.coins[ci] = coin2],
                      [t |-> t, type |-> "trade", side |-> "BUY", wallet |-> wallet,
                       coinId |-> coinId, sol |-> sol, tokens |-> tokens,
                       feeSol |-> feeSol, split |-> split])
    IN [store |-> [s2 EXCEPT !.profiles = Put(@, wallet, p2)], wrote |-> TRUE,
        res |-> [ok |-> TRUE, error |-> "", sol |-> sol, coinId |-> coinId, txId |-> uid1]]

\* a sell of the whole computed quantity
SellTokensUncapped(have, tokens) == tokens

\* sellTokens of line 1057
SellTokens(have, tokens) == Min(have, tokens)

\* the sell branch, lines 1052-1081
SellBranch(s, ci, p, req, tokens, feeSol, split, t, uid1) ==
    LET wallet == req.wallet
        coinId == req.coinId
        sol == req.sol
        coin == s.coins[ci]
        hi == FindIdx(p.holdings, "coinId", coinId)
        have == IF hi # 0 THEN p.holdings[hi].amount ELSE 0
        sellTokens == SellTokens(have, tokens)
        mc2 == BumpMc(coin.mc, sol, 0 - SELL_BUMP)
        coin2 == [coin EXCEPT
                    !.holders = Put(@, wallet, Max(0, Get(@, wallet, 0) - sellTokens)),
                    !.volumeSol = @ + sol,
                    !.mc = mc2,
                    !.chart = SliceTail(Append(@, mc2), CHART_CAP),
                    !.lastTradeAt = t]
        p2 == [p EXCEPT !.holdings[hi].amount = have - sellTokens,
                        !.holdings[hi].lastAt = t,
                        !.txs = Unshift(@, [id |-> uid1, t |-> t, coinId |-> coinId,
                                            side |-> "SELL", sol |-> sol,
                                            tokens |-> sellTokens, feeSol |-> feeSol]),
                        !.updatedAt = t]
        s2 == logPush([s EXCEPT !.coins[ci] = coin2],
                      [t |-> t, type |-> "trade", side |-> "SELL", wallet |-> wallet,
                       coinId |-> coinId, sol |-> sol, tokens |-> sellTokens,
                       feeSol |-> feeSol, split |-> split])
    IN IF hi = 0 \/ have <= 0 THEN Refuse(s, "No tokens to sell")
       ELSE [store |-> [s2 EXCEPT !.profiles = Put(@, wallet, p2)], wrote |-> TRUE,
             res |-> [ok |-> TRUE, error |-> "", sol |-> sol, coinId |-> coinId,
                      txId |-> uid1]]

\* a trade that takes any coin
NotLiveNever(coin) == FALSE

\* the check of line 1000
NotLive(coin) == coin.status # "LIVE"

\* a profile object that keeps the rewards it had when it was made
TradeProfileDetached(p0, base, credited) == p0

\* the profile object p of line 1002 at the end of the trade, credited being the
\* wallet's stored profile after the credits of lines 1013-1014: p0 shares the
\* rewards objects of the stored profile base it was made from (the credits
\* write into them); made from nothing, it has its own
TradeProfile(p0, base, credited) ==
    [p0 EXCEPT
       !.rewards = IF Has(base, "rewards") THEN credited.rewards ELSE @,
       !.referralRewards = IF Has(base, "referralRewards")
                           THEN credited.referralRewards ELSE @]

\* handleTrade after readDB.  The result's store is the store object as the
\* handler leaves it, on a refusal too.
TradeBody(store0, req, t, uid1) ==
    LET wallet == req.wallet
        s1 == ensureTreasury(store0, t)
        ci == findCoinIdx(s1, req.coinId)
        base == ProfileOf(s1, wallet)
        p0 == ensureProfile(base, wallet, t)
        feeSol == takeFee(req.sol).feeSol
        feeDev == PctOf(feeSol, TRADE_DEV_PCT)
        feeCreator == PctOf(feeSol, TRADE_CREATOR_PCT)
        feeRef == PctOf(feeSol, TRADE_REF_PCT)
        feeReserve == PctOf(feeSol, TRADE_RESERVE_PCT)
        split == [dev |-> feeDev, creator |-> feeCreator, ref |-> feeRef,
                  reserve |-> feeReserve]
        s2 == [s1 EXCEPT !.treasury.devSol = @ + feeDev,
                         !.treasury.reserveSol = @ + feeReserve]
        s3 == creditCreatorReward(s2, ci, feeCreator, t)
        s4 == creditReferralReward(s3, wallet, feeRef, t)
        p == TradeProfile(p0, base, ProfileOf(s4, wallet))
        tokens == TradeTokens(s4.coins[ci], req.sol)
    IN IF ci = 0 THEN Refuse(s1, "Coin not found")
       ELSE IF NotLive(s1.coins[ci]) THEN Refuse(s1, "Coin not LIVE")
       ELSE IF req.side = "buy"
            THEN BuyBranch(s4, ci, p, req, tokens, feeSol, split, t, uid1)
            ELSE SellBranch(s4, ci, p, req, tokens, feeSol, split, t, uid1)

\* ------------------------------------------------------------------ set-referral
ReferralInvalid(req) ==
    IF req.wallet = "" \/ Len(req.wallet) < MIN_WALLET_LEN THEN "wallet required"
    ELSE IF req.referrer = "" \/ Len(req.referrer) < MIN_WALLET_LEN THEN "referrer invalid"
    ELSE IF req.wallet = req.referrer THEN "self referral not allowed"
    ELSE ""

\* set-referral without the check of line 865: the edge is written over
ReferralBodyOverwriting(store0, req, t) ==
    LET wallet == req.wallet
        referrer == req.referrer
        s1 == [store0 EXCEPT !.referrals = Put(@, wallet, referrer)]
        p == [ensureProfile(ProfileOf(s1, wallet), wallet, t) EXCEPT !.referrer = referrer]
        s2 == logPush([s1 EXCEPT !.profiles = Put(@, wallet, p)],
                      [t |-> t, type |-> "referral_set", wallet |-> wallet,
                       referrer |-> referrer])
    IN [store |-> s2, wrote |-> TRUE,
        res |-> [ok |-> TRUE, error |-> "", sol |-> 0, coinId |-> "", txId |-> ""]]

ReferralBody(store0, req, t) ==
    LET wallet == req.wallet
        referrer == req.referrer
        s1 == [store0 EXCEPT !.referrals = Put(@, wallet, referrer)]
        p == [ensureProfile(ProfileOf(s1, wallet), wallet, t) EXCEPT !.referrer = referrer]
        s2 == logPush([s1 EXCEPT !.profiles = Put(@, wallet, p)],
                      [t |-> t, type |-> "referral_set", wallet |-> wallet,
                       referrer |-> referrer])
    IN IF Get(store0.referrals, wallet, "") # ""
       THEN Refuse(store0, "immutable: referral already set")
       ELSE [store |-> s2, wrote |-> TRUE,
             res |-> [ok |-> TRUE, error |-> "", sol |-> 0, coinId |-> "", txId |-> ""]]

\* ------------------------------------------------------------------ profile
\* GET /api/profile/:wallet: it stores the profile it answers
ProfileBody(store0, req, t) ==
    LET wallet == req.wallet
        p == ensureProfile(ProfileOf(store0, wallet), wallet, t)
        referrer == Get(store0.referrals, wallet, "")
        p2 == IF p.referrer = "" /\ referrer # "" THEN [p EXCEPT !.referrer = referrer] ELSE p
    IN [store |-> [store0 EXCEPT !.profiles = Put(@, wallet, p2)], wrote |-> TRUE,
        res |-> [ok |-> TRUE, error |-> "", sol |-> 0, coinId |-> "", txId |-> ""]]

\* ------------------------------------------------------------------ withdraw
\* String(req.body.kind || mode).toUpperCase(): the kinds are submitted in capitals
WithdrawKind(req) == IF req.kind # "" THEN req.kind ELSE req.mode

WithdrawInvalid(req) ==
    IF req.wallet = "" THEN "wallet required"
    ELSE IF req.to = "" THEN "to required"
    ELSE ""

\* withdraw without the resets of lines 1117 and 1120: the bucket keeps its total
WithdrawBodyKeeping(store0, req, t, uid1) ==
    LET wallet == req.wallet
        kind == WithdrawKind(req)
        p == ensureProfile(ProfileOf(store0, wallet), wallet, t)
        withdrawn == IF kind = "CREATOR" THEN Get(p.rewards, "totalSol", 0)
                     ELSE IF kind = "REF" THEN Get(p.referralRewards, "totalSol", 0)
                     ELSE 0
        p2 == [p EXCEPT !.txs = Unshift(@, [id |-> uid1, t |-> t, coinId |-> "",
                                            side |-> "WITHDRAW", sol |-> withdrawn,
                                            to |-> req.to, kind |-> kind])]
        s1 == logPush([store0 EXCEPT !.profiles = Put(@, wallet, p2)],
                      [t |-> t, type |-> "withdraw", wallet |-> wallet, to |-> req.to,
                       kind |-> kind, sol |-> withdrawn])
    IN [store |-> s1, wrote |-> TRUE,
        res |-> [ok |-> TRUE, error |-> "", sol |-> withdrawn, coinId |-> "", txId |-> uid1]]

\* withdraw with the reset of line 1117 in the last branch too (lines 1121-1123)
WithdrawBodyResetting(store0, req, t, uid1) ==
    LET wallet == req.wallet
        kind == WithdrawKind(req)
        p == ensureProfile(ProfileOf(store0, wallet), wallet, t)
        withdrawn == IF kind = "CREATOR" THEN Get(p.rewards, "totalSol", 0)
                     ELSE IF kind = "REF" THEN Get(p.referralRewards, "totalSol", 0)
                     ELSE 0
        p1 == IF kind = "CREATOR"
              THEN [p EXCEPT !.rewards = [totalSol |-> 0, byCoin |-> EmptyMap]]
              ELSE [p EXCEPT !.referralRewards = [totalSol |-> 0, byWallet |-> EmptyMap]]
        p2 == [p1 EXCEPT !.txs = Unshift(@, [id |-> uid1, t |-> t, coinId |-> "",
                                             side |-> "WITHDRAW", sol |-> withdrawn,
                                             to |-> req.to, kind |-> kind])]
        s1 == logPush([store0 EXCEPT !.profiles = Put(@, wallet, p2)],
                      [t |-> t, type |-> "withdraw", wallet |-> wallet, to |-> req.to,
                       kind |-> kind, sol |-> withdrawn])
    IN [store |-> s1, wrote |-> TRUE,
        res |-> [ok |-> TRUE, error |-> "", sol |-> withdrawn, coinId |-> "", txId |-> uid1]]

WithdrawBody(store0, req, t, uid1) ==
    LET wallet == req.wallet
        kind == WithdrawKind(req)
        p == ensureProfile(ProfileOf(store0, wallet), wallet, t)
        withdrawn == IF kind = "CREATOR" THEN Get(p.rewards, "totalSol", 0)
                     ELSE IF kind = "REF" THEN Get(p.referralRewards, "totalSol", 0)
                     ELSE 0
        p1 == IF kind = "CREATOR"
              THEN [p EXCEPT !.rewards = [totalSol |-> 0, byCoin |-> EmptyMap]]
              ELSE IF kind = "REF"
              THEN [p EXCEPT !.referralRewards = [totalSol |-> 0, byWallet |-> EmptyMap]]
              ELSE p
        p2 == [p1 EXCEPT !.txs = Unshift(@, [id |-> uid1, t |-> t, coinId |-> "",
                                             side |-> "WITHDRAW", sol |-> withdrawn,
                                             to |-> req.to, kind |-> kind])]
        s1 == logPush([store0 EXCEPT !.profiles = Put(@, wallet, p2)],
                      [t |-> t, type |-> "withdraw", wallet |-> wallet, to |-> req.to,
                       kind |-> kind, sol |-> withdrawn])
    IN [store |-> s1, wrote |-> TRUE,
        res |-> [ok |-> TRUE, error |-> "", sol |-> withdrawn, coinId |-> "", txId |-> uid1]]

\* ------------------------------------------------------------------ dispatch
Invalid(req) ==
    CASE req.op = "create" -> CreateInvalid(req)
      [] req.op = "trade" -> TradeInvalid(req)
      [] req.op = "referral" -> ReferralInvalid(req)
      [] req.op = "withdraw" -> WithdrawInvalid(req)
      [] req.op = "profile" -> ""

\* the handler of req from the return of readDB to its call of writeDB (wrote) or
\* its early return; u is the next unused uid
Body(store0, req, t, u) ==
    CASE req.op = "create" -> CreateBody(store0, req, t, ToString(u), ToString(u + 1))
      [] req.op = "trade" -> TradeBody(store0, req, t, ToString(u))
      [] req.op = "referral" -> ReferralBody(store0, req, t)
      [] req.op = "withdraw" -> WithdrawBody(store0, req, t, ToString(u))
      [] req.op = "profile" -> ProfileBody(store0, req, t)

\* ------------------------------------------------------------------ state
VARIABLES
    mode,          \* DB_MODE: "file" or "supabase"
    remote,        \* the row "main" of the remote table
    disk,          \* the file at FILE_DB_PATH
    tmp,           \* the file at FILE_DB_PATH + ".tmp"
    fileCache,     \* the in-memory store of file mode
    fileLoaded,
    writeTimer,    \* a debounce timer is armed
    writeInFlight,
    pendingWrite,
    flushes,       \* the flushFileStoreNow calls that are past their guard
    pc,            \* where each request handler stands
    req,           \* the request each handler serves
    loc,           \* a handler's store between readDB and writeDB (remote mode)
    now,           \* the clock of nowMs()
    nextUid,       \* uid() answers fresh values
    opCount,       \* requests received
    failCount,     \* flushes that failed
    crashCount,    \* process restarts
    history        \* the answered requests, in the order of their answers

vars == <<mode, remote, disk, tmp, fileCache, fileLoaded, writeTimer, writeInFlight,
          pendingWrite, flushes, pc, req, loc, now, nextUid, opCount, failCount,
          crashCount, history>>

fileVars == <<disk, tmp, fileCache, fileLoaded, writeTimer, writeInFlight,
              pendingWrite, flushes>>

Null == [null |-> TRUE]
NoRow == [absent |-> TRUE]
Absent == [kind |-> "absent"]
Partial == [kind |-> "partial"]

\* JSON.stringify and JSON.parse on a store: finite numbers, strings, arrays and
\* plain objects, which a document holds as they are
JSONstringify(v) == [kind |-> "json", doc |-> v]
JSONparse(f) == f.doc

Handlers == 1..MaxHandlers

Init ==
    /\ mode \in {"file", "supabase"}
    /\ remote = NoRow
    /\ disk = Absent
    /\ tmp = Absent
    /\ fileCache = Null
    /\ fileLoaded = FALSE
    /\ writeTimer = FALSE
    /\ writeInFlight = FALSE
    /\ pendingWrite = FALSE
    /\ flushes = <<>>
    /\ pc = [h \in Handlers |-> "idle"]
    /\ req = [h \in Handlers |-> Null]
    /\ loc = [h \in Handlers |-> Null]
    /\ now = 1
    /\ nextUid = 1
    /\ opCount = 0
    /\ failCount = 0
    /\ crashCount = 0
    /\ history = <<>>

\* the store a readDB would return now
Persisted ==
    IF mode = "supabase"
    THEN (IF remote = NoRow THEN normalizeStore(defaultStore(now), now)
          ELSE normalizeStore(remote.data, now))
    ELSE IF fileLoaded /\ fileCache # Null THEN fileCache
    ELSE IF disk.kind = "json" THEN normalizeStore(JSONparse(disk), now)
    ELSE normalizeStore(defaultStore(now), now)

Answer(h, r, res, pre, post) ==
    history' = Append(history, [h |-> h, req |-> r, res |-> res, pre |-> pre, post |-> post])

Failure(error) == [ok |-> FALSE, error |-> error, sol |-> 0, coinId |-> "", txId |-> ""]

Idle(h) ==
    /\ pc' = [pc EXCEPT ![h] = "idle"]
    /\ req' = [req EXCEPT ![h] = Null]
    /\ loc' = [loc EXCEPT ![h] = Null]

\* ------------------------------------------------------------------ handlers
\* a request that fails the checks made before readDB
Reject(h, r, lim) ==
    /\ pc[h] = "idle"
    /\ opCount < lim
    /\ Invalid(r) # ""
    /\ opCount' = opCount + 1
    /\ Answer(h, r, Failure(Invalid(r)), Undefined, Undefined)
    /\ UNCHANGED <<mode, remote, fileVars, pc, req, loc, now, nextUid, failCount, crashCount>>

BeginRemote(h, r, lim) ==
    /\ mode = "supabase"
    /\ pc[h] = "idle"
    /\ opCount < lim
    /\ Invalid(r) = ""
    /\ opCount' = opCount + 1
    /\ pc' = [pc EXCEPT ![h] = "select"]
    /\ req' = [req EXCEPT ![h] = r]
    /\ UNCHANGED <<mode, remote, fileVars, loc, now, nextUid, failCount, crashCount, history>>

\* readDB has returned st to handler h, which runs to its writeDB or early return
RunRemote(h, st) ==
    \E out \in {Body(st, req[h], now, nextUid)} :
       /\ now' = now + 1
       /\ nextUid' = nextUid + 2
       /\ IF out.wrote
          THEN /\ pc' = [pc EXCEPT ![h] = "upsert"]
               /\ loc' = [loc EXCEPT ![h] = [pre |-> st, out |-> out]]
               /\ UNCHANGED <<req, history>>
          ELSE /\ Idle(h)
               /\ Answer(h, req[h], out.res, st, out.store)

RemoteSelect(h) ==
    /\ pc[h] = "select"
    /\ remote # NoRow
    /\ RunRemote(h, normalizeStore(remote.data, now))
    /\ UNCHANGED <<mode, remote, fileVars, opCount, failCount, crashCount>>

RemoteSelectNone(h) ==
    /\ pc[h] = "select"
    /\ remote = NoRow
    /\ pc' = [pc EXCEPT ![h] = "init"]
    /\ UNCHANGED <<mode, remote, fileVars, req, loc, now, nextUid, opCount, failCount,
                   crashCount, history>>

RemoteInit(h) ==
    /\ pc[h] = "init"
    /\ remote' = [data |-> defaultStore(now)]
    /\ RunRemote(h, normalizeStore(defaultStore(now), now))
    /\ UNCHANGED <<mode, fileVars, opCount, failCount, crashCount>>

RemoteUpsert(h) ==
    /\ pc[h] = "upsert"
    /\ remote' = [data |-> loc[h].out.store]
    /\ Idle(h)
    /\ Answer(h, req[h], loc[h].out.res, loc[h].pre, loc[h].out.store)
    /\ UNCHANGED <<mode, fileVars, now, nextUid, opCount, failCount, crashCount>>

\* the select or an upsert answers an error: the handler answers status 500
RemoteError(h) ==
    /\ pc[h] \in {"select", "init", "upsert"}
    /\ Idle(h)
    /\ Answer(h, req[h], Failure("Supabase failed"), Undefined, Undefined)
    /\ UNCHANGED <<mode, remote, fileVars, now, nextUid, opCount, failCount, crashCount>>

\* scheduleFileWrite after writeDB has replaced the cache
RunFile(h, r, cache0) ==
    \E out \in {Body(cache0, r, now, nextUid)} :
       /\ now' = now + 1
       /\ nextUid' = nextUid + 2
       /\ fileCache' = IF out.wrote THEN normalizeStore(out.store, now) ELSE out.store
       /\ fileLoaded' = TRUE
       /\ writeTimer' = (writeTimer \/ out.wrote)
       /\ Idle(h)
       /\ Answer(h, r, out.res, cache0, out.store)

BeginFileCached(h, r, lim) ==
    /\ mode = "file"
    /\ pc[h] = "idle"
    /\ opCount < lim
    /\ Invalid(r) = ""
    /\ fileLoaded /\ fileCache # Null
    /\ opCount' = opCount + 1
    /\ RunFile(h, r, fileCache)
    /\ UNCHANGED <<mode, remote, disk, tmp, writeInFlight, pendingWrite, flushes,
                   failCount, crashCount>>

BeginFileLoad(h, r, lim) ==
    /\ mode = "file"
    /\ pc[h] = "idle"
    /\ opCount < lim
    /\ Invalid(r) = ""
    /\ ~(fileLoaded /\ fileCache # Null)
    /\ opCount' = opCount + 1
    /\ pc' = [pc EXCEPT ![h] = "access"]
    /\ req' = [req EXCEPT ![h] = r]
    /\ UNCHANGED <<mode, remote, fileVars, loc, now, nextUid, failCount, crashCount, history>>

FileAccess(h) ==
    /\ pc[h] = "access"
    /\ pc' = [pc EXCEPT ![h] = IF disk = Absent THEN "initwrite" ELSE "readfile"]
    /\ UNCHANGED <<mode, remote, fileVars, req, loc, now, nextUid, opCount, failCount,
                   crashCount, history>>

\* fsp.writeFile(FILE_DB_PATH, ...) opens the file, which truncates it
FileInitOpen(h) ==
    /\ pc[h] = "initwrite"
    /\ disk' = Partial
    /\ pc' = [pc EXCEPT ![h] = "initwriting"]
    /\ UNCHANGED <<mode, remote, tmp, fileCache, fileLoaded, writeTimer, writeInFlight,
                   pendingWrite, flushes, req, loc, now, nextUid, opCount, failCount,
                   crashCount, history>>

FileInitDone(h) ==
    /\ pc[h] = "initwriting"
    /\ disk' = JSONstringify(defaultStore(now))
    /\ pc' = [pc EXCEPT ![h] = "readfile"]
    /\ UNCHANGED <<mode, remote, tmp, fileCache, fileLoaded, writeTimer, writeInFlight,
                   pendingWrite, flushes, req, loc, now, nextUid, opCount, failCount,
                   crashCount, history>>

FileRead(h) ==
    /\ pc[h] = "readfile"
    /\ disk.kind = "json"
    /\ RunFile(h, req[h], normalizeStore(JSONparse(disk), now))
    /\ UNCHANGED <<mode, remote, disk, tmp, writeInFlight, pendingWrite, flushes,
                   opCount, failCount, crashCount>>

\* the file is being written: it reads as "" (raw is falsy, parsed is {}) ...
FileReadEmpty(h) ==
    /\ pc[h] = "readfile"
    /\ disk = Partial
    /\ RunFile(h, req[h], normalizeStore(EmptyMap, now))
    /\ UNCHANGED <<mode, remote, disk, tmp, writeInFlight, pendingWrite, flushes,
                   opCount, failCount, crashCount>>

\* ... or as a cut document, on which JSON.parse throws
FileReadCut(h) ==
    /\ pc[h] = "readfile"
    /\ disk = Partial
    /\ Idle(h)
    /\ Answer(h, req[h], Failure("Unexpected end of JSON input"), Undefined, Undefined)
    /\ UNCHANGED <<mode, remote, fileVars, now, nextUid, opCount, failCount, crashCount>>

\* ------------------------------------------------------------------ file flush
\* a call of flushFileStoreNow past its guard: where it stands, the data it took,
\* and how many calls of flushFileStoreNow it is nested in (line 732)
FlushCall(depth) ==
    [phase |-> "write", data |-> JSONstringify(fileCache), depth |-> depth]

\* flushFileStoreNow without the guard of lines 718-721
CallFlushUnguarded ==
    /\ writeInFlight' = TRUE
    /\ pendingWrite' = FALSE
    /\ flushes' = Append(flushes, FlushCall(0))

\* flushFileStoreNow up to its first await
CallFlush ==
    IF writeInFlight
    THEN /\ pendingWrite' = TRUE
         /\ UNCHANGED <<writeInFlight, flushes>>
    ELSE /\ writeInFlight' = TRUE
         /\ pendingWrite' = FALSE
         /\ flushes' = Append(flushes, FlushCall(0))

\* the debounce timer fires
TimerFire ==
    /\ writeTimer
    /\ writeTimer' = FALSE
    /\ CallFlush
    /\ UNCHANGED <<mode, remote, disk, tmp, fileCache, fileLoaded, pc, req, loc, now,
                   nextUid, opCount, failCount, crashCount, history>>

\* fsp.writeFile(tmp, data) opens the temporary file, which truncates it ...
FlushOpen(i) ==
    /\ flushes[i].phase = "write"
    /\ tmp' = Partial
    /\ flushes' = [flushes EXCEPT ![i].phase = "writing"]
    /\ UNCHANGED <<mode, remote, disk, fileCache, fileLoaded, writeTimer, writeInFlight,
                   pendingWrite, pc, req, loc, now, nextUid, opCount, failCount,
                   crashCount, history>>

\* ... and has written all of data
FlushWritten(i) ==
    /\ flushes[i].phase = "writing"
    /\ tmp' = flushes[i].data
    /\ flushes' = [flushes EXCEPT ![i].phase = "rename"]
    /\ UNCHANGED <<mode, remote, disk, fileCache, fileLoaded, writeTimer, writeInFlight,
                   pendingWrite, pc, req, loc, now, nextUid, opCount, failCount,
                   crashCount, history>>

Remove(s, i) == SubSeq(s, 1, i - 1) \o SubSeq(s, i + 1, Len(s))

\* fsp.rename(tmp, FILE_DB_PATH) is done; the call goes on to its end, and into the
\* next flush when one was asked for meanwhile
FlushRename(i) ==
    /\ flushes[i].phase = "rename"
    /\ tmp # Absent
    /\ disk' = tmp
    /\ tmp' = Absent
    /\ IF pendingWrite
       THEN /\ writeInFlight' = TRUE
            /\ pendingWrite' = FALSE
            /\ flushes' = [flushes EXCEPT ![i] = FlushCall(flushes[i].depth + 1)]
       ELSE /\ writeInFlight' = FALSE
            /\ pendingWrite' = pendingWrite
            /\ flushes' = Remove(flushes, i)
    /\ UNCHANGED <<mode, remote, fileCache, fileLoaded, writeTimer, pc, req, loc, now,
                   nextUid, opCount, failCount, crashCount, history>>

\* the write or the rename throws: the call ends there, the timer's catch logs it
FlushFail(i) ==
    /\ failCount < MaxFlushFail
    /\ flushes[i].phase \in {"write", "writing", "rename"}
    /\ failCount' = failCount + 1
    /\ flushes' = Remove(flushes, i)
    /\ UNCHANGED <<mode, remote, disk, tmp, fileCache, fileLoaded, writeTimer,
                   writeInFlight, pendingWrite, pc, req, loc, now, nextUid, opCount,
                   crashCount, history>>

\* the process stops and starts again: the files stay, the memory does not
Crash ==
    /\ crashCount < MaxCrash
    /\ crashCount' = crashCount + 1
    /\ fileCache' = Null
    /\ fileLoaded' = FALSE
    /\ writeTimer' = FALSE
    /\ writeInFlight' = FALSE
    /\ pendingWrite' = FALSE
    /\ flushes' = <<>>
    /\ pc' = [h \in Handlers |-> "idle"]
    /\ req' = [h \in Handlers |-> Null]
    /\ loc' = [h \in Handlers |-> Null]
    /\ UNCHANGED <<mode, remote, disk, tmp, now, nextUid, opCount, failCount, history>>

\* ------------------------------------------------------------------ requests
WalletA == "WalletAlice0000000000000"
WalletB == "WalletBob000000000000000"
WalletC == "WalletCarol0000000000000"
ShortWallet == "short"
SmallSol == 5 * SolGrain
BigSol == 1300 * SolUnit

CoinIds == {Persisted.coins[i].id : i \in 1..Len(Persisted.coins)}
CoinNames == {Persisted.coins[i].name : i \in 1..Len(Persisted.coins)}

CreateReq(name, initialSol) ==
    [op |-> "create", name |-> name, symbol |-> "fun", story |-> "", logo |-> "",
     initialSol |-> initialSol, creatorWallet |-> WalletA]

TradeReq(wallet, coinId, side, sol) ==
    [op |-> "trade", wallet |-> wallet, coinId |-> coinId, side |-> side, sol |-> sol]

ReferralReq(wallet, referrer) ==
    [op |-> "referral", wallet |-> wallet, referrer |-> referrer]

WithdrawReq(wallet, mode_, kind, to) ==
    [op |-> "withdraw", wallet |-> wallet, mode |-> mode_, kind |-> kind, to |-> to]

ProfileReq(wallet) == [op |-> "profile", wallet |-> wallet]

\* a coin name is issued once
Unissued(reqs) == {r \in reqs : r.name \notin CoinNames}

\* issue-coin and trades
LedgerRequests ==
    Unissued({CreateReq("Fun", SolUnit), CreateReq("Fun", 0),
              CreateReq("Fun", LIVE_MIN_SOL - 1)})
    \cup {TradeReq(w, c, sd, a) : w \in {WalletA, WalletB}, c \in CoinIds,
                                  sd \in {"buy", "sell"}, a \in {SmallSol, BigSol}}
    \cup {CreateReq("", SolUnit),
          TradeReq(WalletB, "nocoin", "buy", SmallSol),
          TradeReq(WalletB, "nocoin", "hold", SmallSol),
          TradeReq(WalletB, "nocoin", "buy", 0)}

\* referrals, the fees that credit rewards, and withdrawals
RewardRequests ==
    Unissued({CreateReq("Fun", SolUnit)})
    \cup {TradeReq(WalletB, c, "buy", SmallSol) : c \in CoinIds}
    \cup {ReferralReq(WalletA, WalletB), ReferralReq(WalletB, WalletA),
          ReferralReq(WalletB, WalletC), ReferralReq(WalletB, ShortWallet)}
    \cup {WithdrawReq(WalletA, "CREATOR", "", WalletA),
          WithdrawReq(WalletB, "REF", "", WalletB),
          WithdrawReq(WalletB, "REF", "REFERRAL", WalletB),
          WithdrawReq(WalletB, "MANUAL", "", WalletB),
          ProfileReq(WalletB)}

\* requests that may overlap: an issuance, trades, a referral, a withdrawal
ConcRequests ==
    Unissued({CreateReq("Fun", SolUnit)})
    \cup {TradeReq(WalletB, c, "buy", SmallSol) : c \in CoinIds}
    \cup {ReferralReq(WalletB, WalletA),
          WithdrawReq(WalletA, "CREATOR", "", WalletA),
          TradeReq(WalletB, "nocoin", "buy", 0)}

\* writes that keep the file adapter busy
FileRequests ==
    {WithdrawReq(WalletB, "MANUAL", "", WalletB)}

\* ------------------------------------------------------------------ specifications
Receive(h, r, lim) ==
    \/ Reject(h, r, lim)
    \/ BeginRemote(h, r, lim)
    \/ BeginFileCached(h, r, lim)
    \/ BeginFileLoad(h, r, lim)

Proceed(h) ==
    \/ RemoteSelect(h)
    \/ RemoteSelectNone(h)
    \/ RemoteInit(h)
    \/ RemoteUpsert(h)
    \/ FileAccess(h)
    \/ FileInitOpen(h)
    \/ FileInitDone(h)
    \/ FileRead(h)

\* one request at a time, the persistence layer answering every call
NextSerial ==
    \/ \E r \in LedgerRequests : Receive(1, r, MaxOps)
    \/ Proceed(1)

SpecSerial == Init /\ [][NextSerial]_vars

NextRewards ==
    \/ \E r \in RewardRequests : Receive(1, r, MaxOps)
    \/ Proceed(1)

SpecRewards == Init /\ [][NextRewards]_vars

\* a request is taken by the free handler of the lowest index
FirstFree(h) == \A g \in Handlers : g < h => pc[g] # "idle"

\* overlapping requests, in either mode
Next ==
    \E h \in Handlers :
        \/ FirstFree(h) /\ \E r \in ConcRequests : Receive(h, r, MaxConcOps)
        \/ Proceed(h)
        \/ FileReadEmpty(h)
        \/ FileReadCut(h)
        \/ RemoteError(h)

Spec == Init /\ [][Next]_vars

\* the file adapter: overlapping requests, the debounced flush, failing writes and
\* restarts of the process
InitFile == Init /\ mode = "file"

NextFile ==
    \/ \E h \in Handlers :
        \/ FirstFree(h) /\ \E r \in FileRequests :
              \/ BeginFileCached(h, r, MaxFileOps)
              \/ BeginFileLoad(h, r, MaxFileOps)
        \/ FileAccess(h)
        \/ FileInitOpen(h)
        \/ FileInitDone(h)
        \/ FileRead(h)
        \/ FileReadEmpty(h)
        \/ FileReadCut(h)
    \/ TimerFire
    \/ \E i \in 1..Len(flushes) :
        \/ FlushOpen(i)
        \/ FlushWritten(i)
        \/ FlushRename(i)
        \/ FlushFail(i)
    \/ Crash

SpecFile == InitFile /\ [][NextFile]_vars

\* ------------------------------------------------------------------ the flush, with fairness
\* file mode, one request at a time, no write of the file failing and no restart:
\* a timer that is armed fires, a file operation that has started ends, and a
\* handler goes on after its await
FlushRequests ==
    {WithdrawReq(WalletB, "MANUAL", "", WalletB),
     TradeReq(WalletB, "nocoin", "sell", SmallSol)}

LoadStep == FileAccess(1) \/ FileInitOpen(1) \/ FileInitDone(1) \/ FileRead(1)

FlushStep == \E i \in 1..Len(flushes) : FlushOpen(i) \/ FlushWritten(i) \/ FlushRename(i)

NextFlush ==
    \/ \E r \in FlushRequests :
          \/ BeginFileCached(1, r, MaxFileOps)
          \/ BeginFileLoad(1, r, MaxFileOps)
    \/ LoadStep
    \/ TimerFire
    \/ FlushStep

SpecFlush ==
    /\ InitFile
    /\ [][NextFlush]_vars
    /\ WF_vars(LoadStep)
    /\ WF_vars(TimerFire)
    /\ WF_vars(FlushStep)

\* ------------------------------------------------------------------ several coins
\* one request at a time on up to three coins, LIVE and DRAFT, one of them with
\* a symbol of one character, with every kind of request
CoinsRequests ==
    Unissued({CreateReq("Fun", SolUnit), CreateReq("Run", 0),
              [CreateReq("One", SolUnit) EXCEPT !.symbol = "x"]})
    \cup {TradeReq(WalletB, c, sd, SmallSol) : c \in CoinIds, sd \in {"buy", "sell"}}
    \cup {ReferralReq(WalletB, WalletA),
          WithdrawReq(WalletA, "CREATOR", "", WalletA),
          ProfileReq(WalletB)}

NextCoins ==
    \/ \E r \in CoinsRequests : Receive(1, r, MaxOps)
    \/ Proceed(1)

SpecCoins == Init /\ [][NextCoins]_vars

\* ------------------------------------------------------------------ a long-lived coin
\* one coin is issued for 1 SOL and bought 0.05 SOL at a time until its chart is
\* at the cap; the trades that follow are the ones drawn. In file mode the
\* trades are served from the cache, the debounce timer not firing meanwhile
MaxChartOps == 3

\* the requests that fill the chart: 5 samples at the issue, one more for each buy
WarmOps == CHART_CAP - 4

ChartRequests ==
    IF opCount = 0 THEN {CreateReq("Fun", SolUnit)}
    ELSE IF opCount < WarmOps
    THEN {TradeReq(WalletB, c, "buy", SmallSol) : c \in CoinIds}
    ELSE {TradeReq(w, c, sd, SmallSol) :
             w \in {WalletA, WalletB}, c \in CoinIds, sd \in {"buy", "sell"}}

NextChart ==
    \/ \E r \in ChartRequests :
          \/ BeginRemote(1, r, WarmOps + MaxChartOps)
          \/ BeginFileCached(1, r, WarmOps + MaxChartOps)
          \/ BeginFileLoad(1, r, WarmOps + MaxChartOps)
    \/ Proceed(1)

SpecChart == Init /\ [][NextChart]_vars

\* ------------------------------------------------------------------ functions on their own
\* ensureCoin, ensureProfile, normalizeStore and the quantity of a trade, each
\* and logPush, each called on an argument drawn at the start; a normalizer, and
\* logPush, is called a second time, at a later clock value, on what its first
\* call returned

\* an object's field k: o is <<>> when the field is missing, <<v>> when it holds v
Field(k, o) == IF o = <<>> THEN EmptyMap ELSE (k :> o[1])

LongChart == [i \in 1..(CHART_CAP + 1) |-> STARTING_MC_USD]

\* coin records as a document may hold them: null, or an object with some of
\* its fields
CoinDocs ==
    {Undefined} \cup
    {Field("status", st) @@ Field("mc", mc) @@ Field("ath", ath) @@ Field("chart", ch)
        @@ Field("holders", hd) :
       st \in {<<>>, <<"LIVE">>, <<"DRAFT">>},
       mc \in {<<>>, <<0>>, <<100>>, <<STARTING_MC_USD>>},
       ath \in {<<>>, <<50>>, <<STARTING_MC_USD>>},
       ch \in {<<>>, << <<>> >>, << <<STARTING_MC_USD>> >>, <<LongChart>>},
       hd \in {<<>>, <<(WalletA :> 5)>>, <<(WalletA :> (0 - 5))>>}}

ProfileDocs ==
    {Undefined} \cup
    {Field("holdings", hs) @@ Field("txs", txs) @@ Field("rewards", rw)
        @@ Field("referralRewards", rr) @@ Field("referrer", rf) :
       hs \in {<<>>, << <<[coinId |-> "1", symbol |-> "FUN", amount |-> 5, lastAt |-> 1]>> >>},
       txs \in {<<>>, << <<>> >>},
       rw \in {<<>>, <<[totalSol |-> 3, byCoin |-> ("1" :> 3)]>>},
       rr \in {<<>>, <<[totalSol |-> 0, byWallet |-> EmptyMap]>>},
       rf \in {<<>>, <<WalletB>>}}

\* documents at rest: those this program writes and those of another deployment
StoreDocs ==
    {Field("coins", cs) @@ Field("profiles", ps) @@ Field("referrals", rs) :
       cs \in {<<>>, << <<>> >>,
               << <<[id |-> "1", name |-> "Fun", status |-> "LIVE",
                     mc |-> STARTING_MC_USD]>> >>},
       ps \in {<<>>, <<EmptyMap>>} \cup
              {<<(WalletA :> p)>> :
                 p \in {ensureProfile(Undefined, WalletA, 1),
                        [wallet |-> WalletA, holdings |-> <<>>, txs |-> <<>>],
                        [wallet |-> WalletA, holdings |-> <<>>, txs |-> <<>>,
                         rewards |-> [totalSol |-> 3, byCoin |-> ("1" :> 3)]]}},
       rs \in {<<>>, <<(WalletA :> WalletB)>>}}

\* the mc of a fresh coin after one buy of 10,000,000 SOL
HugeMc == STARTING_MC_USD + 10000000 * BUY_BUMP

\* LIVE coins at several stored mc (0 is what a stored null reads as), and the
\* sol of a trade
TradedCoins ==
    {ensureCoin([id |-> "1", name |-> "Fun", status |-> "LIVE", mc |-> m], 1, "1") :
       m \in {0, PRICE_FLOOR \div 2, PRICE_FLOOR, STARTING_MC_USD, STARTING_MC_USD + 6,
              TOTAL_SUPPLY_DEFAULT, HugeMc}}

TradedSols == {SmallSol, SolUnit, 5 * SolUnit, BigSol}

\* the amounts that are finite doubles when multiplied by 10^308, which a huge
\* trade does: 5e306 SOL and 1e308 SOL
HugeSols == {SmallSol, SolUnit}

\* the mc of a LIVE coin before a trade: at the floor, fresh, after a buy
TradedMcs == {PRICE_FLOOR, STARTING_MC_USD, STARTING_MC_USD + 6, HugeMc}

\* stores whose log holds n entries, the latest first
LoggedStores ==
    {[defaultStore(1) EXCEPT !.logs = [i \in 1..n |-> [t |-> n - i + 1, type |-> "trade"]]] :
       n \in {0, 1, LOG_CAP - 1, LOG_CAP}}

Calls ==
    {[op |-> "ensureCoin", arg |-> c, again |-> FALSE] : c \in CoinDocs}
    \cup {[op |-> "ensureProfile", arg |-> p, wallet |-> w, again |-> FALSE] :
            p \in ProfileDocs, w \in {WalletA, ""}}
    \cup {[op |-> "normalizeStore", arg |-> d, again |-> FALSE] : d \in StoreDocs}
    \cup {[op |-> "tradeTokens", coin |-> c, sol |-> sol, then |-> c2, again |-> FALSE] :
            c \in TradedCoins, c2 \in TradedCoins, sol \in TradedSols}
    \cup {[op |-> "logPush", arg |-> st, item |-> [t |-> LOG_CAP + 1, type |-> ty],
           again |-> FALSE] :
            st \in LoggedStores, ty \in {"withdraw", "coin_create"}}
    \cup {[op |-> "tradeMc", arg |-> m, sol |-> a.sol, huge |-> a.huge, side |-> sd,
           store |-> md, again |-> FALSE] :
            m \in TradedMcs,
            a \in [sol : TradedSols, huge : {FALSE}] \cup [sol : HugeSols, huge : {TRUE}],
            sd \in {"buy", "sell"}, md \in {"file", "remote"}}

InitCalls ==
    /\ mode = "file"
    /\ remote = NoRow
    /\ disk = Absent
    /\ tmp = Absent
    /\ fileCache = Null
    /\ fileLoaded = FALSE
    /\ writeTimer = FALSE
    /\ writeInFlight = FALSE
    /\ pendingWrite = FALSE
    /\ flushes = <<>>
    /\ \E c \in Calls :
          /\ pc = [h \in Handlers |-> IF h = 1 THEN "call" ELSE "idle"]
          /\ req = [h \in Handlers |-> IF h = 1 THEN c ELSE Null]
    /\ loc = [h \in Handlers |-> Null]
    /\ now = 1
    /\ nextUid = 1
    /\ opCount = 0
    /\ failCount = 0
    /\ crashCount = 0
    /\ history = <<>>

\* the call of h has returned out, which the second call takes as its argument;
\* the second pricing call takes the same sol and the other coin
Return(h, out) ==
    /\ Answer(h, req[h], out, Undefined, Undefined)
    /\ now' = now + 1
    /\ nextUid' = nextUid + 1
    /\ IF req[h].again
       THEN Idle(h)
       ELSE /\ req' = [req EXCEPT ![h] =
                         IF @.op = "tradeTokens"
                         THEN [@ EXCEPT !.coin = req[h].then, !.again = TRUE]
                         ELSE [@ EXCEPT !.arg = out, !.again = TRUE]]
            /\ UNCHANGED <<pc, loc>>
    /\ UNCHANGED <<mode, remote, fileVars, opCount, failCount, crashCount>>

EnsureCoinCall(h) ==
    /\ pc[h] = "call"
    /\ req[h].op = "ensureCoin"
    /\ Return(h, ensureCoin(req[h].arg, now, ToString(nextUid)))

EnsureProfileCall(h) ==
    /\ pc[h] = "call"
    /\ req[h].op = "ensureProfile"
    /\ Return(h, ensureProfile(req[h].arg, req[h].wallet, now))

NormalizeStoreCall(h) ==
    /\ pc[h] = "call"
    /\ req[h].op = "normalizeStore"
    /\ Return(h, normalizeStore(req[h].arg, now))

TradeTokensCall(h) ==
    /\ pc[h] = "call"
    /\ req[h].op = "tradeTokens"
    /\ Return(h, TradeTokens(req[h].coin, req[h].sol))

LogPushCall(h) ==
    /\ pc[h] = "call"
    /\ req[h].op = "logPush"
    /\ Return(h, logPush(req[h].arg, req[h].item))

\* the price update of a trade, then the same trade on the mc read back
TradeMcCall(h) ==
    /\ pc[h] = "call"
    /\ req[h].op = "tradeMc"
    /\ Return(h, StoredMc(TradedMc(req[h].arg, req[h].sol, req[h].huge,
                                   IF req[h].side = "buy" THEN BUY_BUMP
                                   ELSE 0 - SELL_BUMP),
                          req[h].store))

NextCalls ==
    \/ TradeMcCall(1)
    \/ EnsureCoinCall(1)
    \/ EnsureProfileCall(1)
    \/ NormalizeStoreCall(1)
    \/ TradeTokensCall(1)
    \/ LogPushCall(1)

SpecCalls == InitCalls /\ [][NextCalls]_vars

\* ------------------------------------------------------------------ properties
Answered == 1..Len(history)

\* the sum of F over the answered requests
SumOver(F(_)) ==
    LET f[k \in 0..Len(history)] == IF k = 0 THEN 0 ELSE f[k - 1] + F(history[k])
    IN f[Len(history)]

\* C1: for every coin of the store, whatever issue-coin and buy/sell requests were
\* served, the balances of coin.holders sum to at most coin.totalSupply.
C1_HoldersWithinSupply ==
    \A c \in {Persisted.coins[i] : i \in 1..Len(Persisted.coins)} :
        SumMap(c.holders) <= c.totalSupply

\* the most a creator may hold of a coin
OwnerCap(coin) == (coin.totalSupply \div 100) * OWNER_MAX_PERCENT

\* C2: a buy by the coin's creator is accepted only when it leaves the creator's
\* holding at or below OWNER_MAX_PERCENT of totalSupply (one that would bring it
\* above is rejected).
C2_CreatorBuyWithinCap ==
    \A e \in {history[k] : k \in Answered} :
        (e.req.op = "trade" /\ e.req.side = "buy" /\ e.res.ok) =>
            \A c \in {e.post.coins[i] : i \in 1..Len(e.post.coins)} :
                (c.id = e.req.coinId /\ c.creatorWallet = e.req.wallet)
                    => Get(c.holders, e.req.wallet, 0) <= OwnerCap(c)

\* what an accepted request leaves in the store: the coin it issued, the
\* transaction it recorded, the referral edge it set, the profile it stored
Effected(e, store) ==
    CASE e.req.op = "create" ->
           \E i \in 1..Len(store.coins) : store.coins[i].id = e.res.coinId
      [] e.req.op \in {"trade", "withdraw"} ->
           /\ Has(store.profiles, e.req.wallet)
           /\ \E j \in 1..Len(store.profiles[e.req.wallet].txs) :
                 store.profiles[e.req.wallet].txs[j].id = e.res.txId
      [] e.req.op = "referral" -> Get(store.referrals, e.req.wallet, "") = e.req.referrer
      [] e.req.op = "profile" -> Has(store.profiles, e.req.wallet)

\* C3: whatever the interleaving of the handlers at their readDB/writeDB awaits,
\* the store that a load returns holds the effect of every request answered
\* ok:true so far (no handler writes back over another's update).
C3_NoLostUpdate ==
    \E st \in {Persisted} :
        \A e \in {history[k] : k \in Answered} : e.res.ok => Effected(e, st)

\* a store without its timestamps of last access
Substance(store) ==
    [devSol |-> store.treasury.devSol,
     reserveSol |-> store.treasury.reserveSol,
     coins |-> store.coins,
     referrals |-> store.referrals,
     profiles |-> [w \in DOMAIN store.profiles |->
                     LET p == store.profiles[w]
                     IN [holdings |-> p.holdings, txs |-> p.txs, rewards |-> p.rewards,
                         referralRewards |-> p.referralRewards, referrer |-> p.referrer]],
     logs |-> store.logs]

\* C4: a request answered ok:false, on a validation error or on a state
\* precondition ("No tokens to sell" among them), leaves the store that later
\* loads return as it was: treasury, coins, referrals, profiles and logs.
C4_RefusalKeepsStore ==
    [][(Len(history') > Len(history) /\ ~history'[Len(history')].res.ok)
          => Substance(Persisted') = Substance(Persisted)]_vars

\* C5: in file mode, when the debounce timer set by a writeDB fires and no flush
\* is running (the last one has ended, by success or by failure), a flush starts
\* and attempts the disk write.
C5_FiredTimerStartsFlush ==
    [][(writeTimer /\ ~writeTimer' /\ crashCount' = crashCount /\ flushes = <<>>)
          => flushes' # <<>>]_vars

\* C6: in file mode at most one flush is in progress; a call of flushFileStoreNow
\* made while one is in progress writes no file, sets pendingWrite and starts
\* nothing; the rename that completes a flush starts exactly one further flush,
\* of the cache as it is then, when pendingWrite is set, and none otherwise.
C6_SingleFlush ==
    /\ [](Len(flushes) <= 1)
    /\ [][(writeTimer /\ ~writeTimer' /\ crashCount' = crashCount /\ flushes # <<>>)
             => (pendingWrite' /\ flushes' = flushes /\ disk' = disk /\ tmp' = tmp)]_vars
    /\ [][(tmp # Absent /\ tmp' = Absent /\ crashCount' = crashCount)
             => IF pendingWrite
                THEN /\ Len(flushes') = 1
                     /\ flushes'[1].phase = "write"
                     /\ flushes'[1].data = JSONstringify(fileCache)
                     /\ writeInFlight' /\ ~pendingWrite'
                ELSE flushes' = <<>> /\ ~writeInFlight']_vars

\* a flush asked for during another has started after it
C6_Witness ==
    /\ Len(flushes) = 1
    /\ flushes[1].depth > 0
    /\ disk.kind = "json"
    /\ fileCache # Null

\* C7: in file mode the file at the database path is, in every reachable state,
\* absent or one complete serialized snapshot, never a truncated or partly
\* written one.
C7_FileAbsentOrComplete == disk.kind \in {"absent", "json"}

\* the set-referral requests answered after an accepted one for the same wallet
LaterReferrals ==
    {<<j, k>> \in Answered \X Answered :
        /\ j < k
        /\ history[j].req.op = "referral" /\ history[j].res.ok
        /\ history[k].req.op = "referral"
        /\ history[k].req.wallet = history[j].req.wallet}

\* C8 (as the code has it): once referrals[wallet] is set it keeps its value in
\* every later state, and every later set-referral request for that wallet fails:
\* with "immutable: referral already set" when the request passes the checks on
\* wallet and referrer, with the error of those checks otherwise.
C8_ReferralWriteOnce ==
    /\ [][\A w \in DOMAIN Persisted.referrals :
             Get(Persisted'.referrals, w, "") = Persisted.referrals[w]]_vars
    /\ [](\A jk \in LaterReferrals :
             \E e \in {history[jk[2]]} :
                /\ ~e.res.ok
                /\ e.res.error = IF ReferralInvalid(e.req) = ""
                                 THEN "immutable: referral already set"
                                 ELSE ReferralInvalid(e.req))

\* a second referrer was asked for a wallet whose referral is set, and refused
C8_Witness ==
    \E jk \in LaterReferrals :
        /\ history[jk[2]].req.referrer # history[jk[1]].req.referrer
        /\ ReferralInvalid(history[jk[2]].req) = ""
        /\ Persisted.referrals[history[jk[1]].req.wallet] = history[jk[1]].req.referrer

\* C8 (as the specification has it): every later set-referral request for that
\* wallet fails with "immutable: referral already set".
C8_AlwaysImmutableError ==
    \A jk \in LaterReferrals :
        /\ ~history[jk[2]].res.ok
        /\ history[jk[2]].res.error = "immutable: referral already set"

\* the rewards bucket a withdrawal of that kind empties, in that store
BucketOf(store, wallet, kind) ==
    LET p == ensureProfile(ProfileOf(store, wallet), wallet, 0)
    IN  IF kind = "CREATOR"
        THEN [totalSol |-> p.rewards.totalSol, keys |-> DOMAIN p.rewards.byCoin]
        ELSE [totalSol |-> p.referralRewards.totalSol,
              keys |-> DOMAIN p.referralRewards.byWallet]

\* the withdrawals of the given kinds answer the bucket's total of before, leave
\* the bucket at 0 with no key, and answer 0 when the same request follows at once
WithdrawEmpties(kinds) ==
    \A k \in Answered :
        \E e \in {history[k]} :
            (e.req.op = "withdraw" /\ WithdrawInvalid(e.req) = ""
                /\ WithdrawKind(e.req) \in kinds) =>
                /\ e.res.ok
                /\ e.res.sol = BucketOf(e.pre, e.req.wallet, WithdrawKind(e.req)).totalSol
                /\ BucketOf(e.post, e.req.wallet, WithdrawKind(e.req))
                      = [totalSol |-> 0, keys |-> {}]
                /\ (k < Len(history) /\ history[k + 1].req = e.req)
                      => (history[k + 1].res.ok /\ history[k + 1].res.sol = 0)

\* C9 (as the code has it): a withdraw of kind CREATOR or REF, the kind of the
\* referral route, returns the bucket's total of just before the call, sets the
\* bucket to total 0 with an empty map, and an immediately following withdraw of
\* the same kind returns 0; on a bucket already at 0 it succeeds and returns 0.
C9_WithdrawZeroes == WithdrawEmpties({"CREATOR", "REF"})

\* a referral bucket above 0 was withdrawn, and withdrawn again at once
C9_Witness ==
    \E k \in Answered :
        /\ k < Len(history)
        /\ history[k].req.op = "withdraw"
        /\ WithdrawKind(history[k].req) = "REF"
        /\ history[k].res.sol > 0
        /\ history[k + 1].req = history[k].req
        /\ history[k + 1].res.sol = 0

\* C9 (as the specification has it): a withdraw of kind CREATOR or REFERRAL
\* returns the bucket's total of just before the call and sets the bucket to 0.
C9_KindReferral == WithdrawEmpties({"CREATOR", "REFERRAL"})

\* what a request answered for the creator bucket of WalletA, which issues the coins
Returned(e) ==
    IF e.req.op = "withdraw" /\ e.res.ok /\ e.req.wallet = WalletA
          /\ WithdrawKind(e.req) = "CREATOR"
    THEN e.res.sol ELSE 0

\* what an accepted trade credits to that bucket (line 1012)
Credited(e) ==
    IF e.req.op = "trade" /\ e.res.ok
    THEN PctOf(takeFee(e.req.sol).feeSol, TRADE_CREATOR_PCT) ELSE 0

\* C10: whatever the interleaving of withdrawals and reward-crediting trades at
\* their readDB/writeDB awaits, the amounts that the successful withdrawals from
\* one bucket returned sum to at most what was ever credited to that bucket.
C10_WithdrawnWithinCredited == SumOver(Returned) <= SumOver(Credited)

\* a store's profiles without those of the given wallets
OtherProfiles(store, ws) == [w \in DOMAIN store.profiles \ ws |-> store.profiles[w]]

\* C11: a withdraw whose kind is neither CREATOR nor REF (MANUAL, and any other
\* value) returns sol 0 and leaves treasury, coins, referrals, every other profile
\* and the wallet's own holdings, rewards, referralRewards and referrer as they
\* were; it prepends one WITHDRAW entry to the wallet's txs and one entry to the log.
C11_ManualWithdrawKeepsBalances ==
    \A e \in {history[k] : k \in Answered} :
        (e.req.op = "withdraw" /\ WithdrawInvalid(e.req) = ""
            /\ WithdrawKind(e.req) \notin {"CREATOR", "REF"}) =>
            \E w \in {e.req.wallet} :
            \E p0 \in {ensureProfile(ProfileOf(e.pre, w), w, 0)} :
            \E p1 \in {ProfileOf(e.post, w)} :
                /\ e.res.ok /\ e.res.sol = 0
                /\ e.post.treasury.devSol = e.pre.treasury.devSol
                /\ e.post.treasury.reserveSol = e.pre.treasury.reserveSol
                /\ e.post.coins = e.pre.coins
                /\ e.post.referrals = e.pre.referrals
                /\ OtherProfiles(e.post, {w}) = OtherProfiles(e.pre, {w})
                /\ p1.rewards = p0.rewards
                /\ p1.referralRewards = p0.referralRewards
                /\ p1.holdings = p0.holdings
                /\ p1.referrer = p0.referrer
                /\ Len(p1.txs) = Len(p0.txs) + 1
                /\ Tail(p1.txs) = p0.txs
                /\ p1.txs[1].side = "WITHDRAW" /\ p1.txs[1].sol = 0
                /\ Len(e.post.logs) = Len(e.pre.logs) + 1
                /\ Tail(e.post.logs) = e.pre.logs
                /\ e.post.logs[1].type = "withdraw"

\* a MANUAL withdraw was served for a wallet whose referral bucket is above 0
C11_Witness ==
    \E k \in Answered :
        /\ history[k].req.op = "withdraw"
        /\ WithdrawKind(history[k].req) = "MANUAL"
        /\ history[k].res.ok
        /\ BucketOf(history[k].post, history[k].req.wallet, "REF").totalSol > 0

\* the coin of that id in a store (there is one), and what a wallet's profile
\* holds of it
CoinOf(store, coinId) == store.coins[findCoinIdx(store, coinId)]

Held(store, wallet, coinId) ==
    LET p == ensureProfile(ProfileOf(store, wallet), wallet, 0)
        hi == FindIdx(p.holdings, "coinId", coinId)
    IN IF hi = 0 THEN 0 ELSE p.holdings[hi].amount

\* the trades that reached the buy or sell branch: the coin exists and is LIVE
Traded(e, side) ==
    /\ e.req.op = "trade" /\ e.req.side = side /\ TradeInvalid(e.req) = ""
    /\ findCoinIdx(e.pre, e.req.coinId) # 0
    /\ CoinOf(e.pre, e.req.coinId).status = "LIVE"

\* C12: a sell whose computed token quantity exceeds what the wallet holds of the
\* coin is rejected, and coin.holders and the profile's holdings stay as they were.
C12_OversellRejected ==
    \A e \in {history[k] : k \in Answered} :
        (Traded(e, "sell")
            /\ TradeTokens(CoinOf(e.pre, e.req.coinId), e.req.sol)
                  > Held(e.pre, e.req.wallet, e.req.coinId)) =>
            /\ ~e.res.ok
            /\ CoinOf(e.post, e.req.coinId).holders = CoinOf(e.pre, e.req.coinId).holders
            /\ Held(e.post, e.req.wallet, e.req.coinId)
                  = Held(e.pre, e.req.wallet, e.req.coinId)

Served == {history[k] : k \in {j \in Answered : Invalid(history[j].req) = ""}}

\* C15: a coin issued with an initial contribution below 0.01 SOL (0 included) is
\* stored DRAFT with mc 0; every buy and sell on a DRAFT coin is refused with
\* "Coin not LIVE" and leaves the coins as they were; no operation takes a
\* DRAFT coin out of DRAFT.
C15_DraftNeverTrades ==
    \A e \in Served :
       /\ (e.req.op = "create" /\ e.res.ok /\ e.req.initialSol < LIVE_MIN_SOL) =>
             /\ findCoinIdx(e.post, e.res.coinId) # 0
             /\ CoinOf(e.post, e.res.coinId).status = "DRAFT"
             /\ CoinOf(e.post, e.res.coinId).mc = 0
       /\ (e.req.op = "trade" /\ findCoinIdx(e.pre, e.req.coinId) # 0
             /\ CoinOf(e.pre, e.req.coinId).status = "DRAFT") =>
             /\ ~e.res.ok
             /\ e.res.error = "Coin not LIVE"
             /\ e.post.coins = e.pre.coins
       /\ \A c \in {e.pre.coins[i] : i \in 1..Len(e.pre.coins)} :
             c.status = "DRAFT" =>
                /\ findCoinIdx(e.post, c.id) # 0
                /\ CoinOf(e.post, c.id).status = "DRAFT"
                /\ CoinOf(e.post, c.id).mc = 0

\* a coin issued with 0.00999 SOL, then a buy and a sell on it, both refused
C15_Witness ==
    \E i, j, k \in Answered :
        /\ i < j /\ i < k
        /\ history[i].req.op = "create" /\ history[i].res.ok
        /\ history[i].req.initialSol = LIVE_MIN_SOL - 1
        /\ history[j].req.op = "trade" /\ history[j].req.side = "buy"
        /\ history[j].req.coinId = history[i].res.coinId
        /\ history[j].res.error = "Coin not LIVE"
        /\ history[k].req.op = "trade" /\ history[k].req.side = "sell"
        /\ history[k].req.coinId = history[i].res.coinId
        /\ history[k].res.error = "Coin not LIVE"

\* the creation-fee entries that a request pushed to the log
FeeLogged(e) ==
    {e.post.logs[i].feeSol :
        i \in {j \in 1..(Len(e.post.logs) - Len(e.pre.logs)) :
                  e.post.logs[j].type = "create_fee"}}

\* C16: issuing a coin with an initial contribution of 0.01 SOL or more stores it
\* LIVE and records a fee of initialSol * FEE_PCT / 100; devSol grows by
\* fee * CREATE_DEV_PCT / 100, reserveSol by fee * CREATE_RESERVE_PCT / 100, and the
\* referrer bound to the creator, if there is one, is credited
\* fee * CREATE_REF_PCT / 100; with no referrer bound nobody is credited.
C16_CreateFeeSplit ==
    \A e \in {d \in Served : d.req.op = "create" /\ d.res.ok
                               /\ d.req.initialSol >= LIVE_MIN_SOL} :
       \E w \in {e.req.creatorWallet} :
       \E fee \in {ProfileOf(e.post, w).txs[1].feeSol} :
       \E ref \in {Get(e.pre.referrals, w, "")} :
          /\ CoinOf(e.post, e.res.coinId).status = "LIVE"
          /\ ProfileOf(e.post, w).txs[1].side = "CREATE"
          /\ 100 * fee = e.req.initialSol * FEE_PCT
          /\ FeeLogged(e) = {fee}
          /\ 100 * (e.post.treasury.devSol - ensureTreasury(e.pre, 0).treasury.devSol)
                = fee * CREATE_DEV_PCT
          /\ 100 * (e.post.treasury.reserveSol - ensureTreasury(e.pre, 0).treasury.reserveSol)
                = fee * CREATE_RESERVE_PCT
          /\ \A r \in {WalletA, WalletB, WalletC} :
                100 * (BucketOf(e.post, r, "REF").totalSol - BucketOf(e.pre, r, "REF").totalSol)
                   = IF r = ref THEN fee * CREATE_REF_PCT ELSE 0

\* a coin issued for 1 SOL by a creator whose referrer was bound before
C16_Witness ==
    \E k \in Answered :
        /\ history[k].req.op = "create" /\ history[k].res.ok
        /\ history[k].req.initialSol = SolUnit
        /\ Get(history[k].pre.referrals, history[k].req.creatorWallet, "") = WalletB
        /\ BucketOf(history[k].post, WalletB, "REF").totalSol > 0

\* the calls of the function op that have returned
Called(op) == {history[k] : k \in {j \in Answered : history[j].req.op = op}}

\* C17: the quantity of a trade on a LIVE coin is max(1, floor(sol * tokensPerUnit))
\* with tokensPerUnit = max(1, floor(totalSupply / max(mc, priceFloor))), mc being
\* the coin's mc before the trade (6500 when that is 0); for sol = 0.05, mc = 6500 and a supply of
\* 1,000,000,000 that is tokensPerUnit = 153846 and 7692 tokens.
C17_TokensClamped ==
    \A e \in Called("tradeTokens") :
       \E tpu \in {Max(1, e.req.coin.totalSupply
                              \div Max(IF e.req.coin.mc # 0 THEN e.req.coin.mc
                                       ELSE STARTING_MC_USD, PRICE_FLOOR))} :
          /\ e.res = Max(1, FloorSolTimes(e.req.sol, tpu))
          /\ (e.req.sol = SmallSol /\ e.req.coin.mc = STARTING_MC_USD) =>
                tpu = 153846 /\ e.res = 7692

\* 5 SOL on a coin whose mc is above its supply buy 5 tokens
C17_Witness ==
    \E e \in Called("tradeTokens") :
        /\ e.req.coin.mc > e.req.coin.totalSupply
        /\ e.req.sol = 5 * SolUnit
        /\ e.res = 5

\* C17 as stated: tokensPerUnit = floor(totalSupply / max(mc, priceFloor)), with
\* no lower bound of 1
C17_TokensPerUnitFloor ==
    \A e \in Called("tradeTokens") :
       e.res = Max(1, FloorSolTimes(e.req.sol,
                        e.req.coin.totalSupply \div Max(e.req.coin.mc, PRICE_FLOOR)))

\* C18: normalizing what a normalizer returned, at a later clock value, returns
\* it equal in every field, for ensureCoin and for ensureProfile.
C18_NormalizersIdempotent ==
    \A e \in Called("ensureCoin") \cup Called("ensureProfile") :
       e.req.again => e.res = e.req.arg

\* C19: whatever record it is given, ensureCoin returns a coin with ath >= mc, a
\* chart that is not empty and no longer than the cap, and holders that are all
\* non-negative.
C19_EnsureCoinInvariants ==
    \A e \in Called("ensureCoin") :
       /\ e.res.ath >= e.res.mc
       /\ Len(e.res.chart) >= 1
       /\ Len(e.res.chart) <= CHART_CAP
       /\ \A w \in DOMAIN e.res.holders : e.res.holders[w] >= 0

\* C20: every profile of a store that normalizeStore returns to readDB has
\* holdings, txs, rewards, referralRewards and referrer.
C20_LoadedProfilesPopulated ==
    \A e \in Called("normalizeStore") :
       \A w \in DOMAIN e.res.profiles :
          {"holdings", "txs", "rewards", "referralRewards", "referrer"}
             \subseteq DOMAIN e.res.profiles[w]

C21_SaveThenLoad ==
    (pc[1] = "idle" /\ history # <<>> /\ history[Len(history)].res.ok) =>
        Persisted = history[Len(history)].post

\* a saved snapshot with a coin and its holders, a profile, a referral edge,
\* treasury amounts and log entries
C21_Witness ==
    /\ pc[1] = "idle" /\ history # <<>> /\ history[Len(history)].res.ok
    /\ \E st \in {history[Len(history)].post} :
          /\ Len(st.coins) > 0
          /\ DOMAIN st.coins[1].holders # {}
          /\ DOMAIN st.profiles # {}
          /\ DOMAIN st.referrals # {}
          /\ st.treasury.devSol > 0
          /\ Len(st.logs) > 1

\* C22: in file mode a writeDB made while the debounce timer is pending arms
\* no other timer and starts no flush, and the firing of the timer results in
\* one flush: the one it starts, or the one that the flush in progress chains.
C22_WritesCoalesce ==
    /\ [][(writeTimer /\ Len(history') > Len(history))
             => (writeTimer' /\ flushes' = flushes)]_vars
    /\ [][(writeTimer /\ ~writeTimer' /\ crashCount' = crashCount)
             => \/ Len(flushes') = Len(flushes) + 1
                \/ (flushes # <<>> /\ flushes' = flushes /\ pendingWrite')]_vars

\* C23: no profile of the store has a holding whose amount is 0: a sell that
\* takes a holding to 0 removes it from the list.
C23_NoZeroHolding ==
    \A w \in DOMAIN Persisted.profiles :
       \A i \in 1..Len(Persisted.profiles[w].holdings) :
          Persisted.profiles[w].holdings[i].amount # 0

\* C25: devSol and reserveSol of the stored treasury never decrease from one
\* state to the next, and each successful trade and each LIVE issuance adds the
\* dev and reserve shares of its fee to them.
C25_TreasuryGrows ==
    /\ [][/\ Persisted'.treasury.devSol >= Persisted.treasury.devSol
          /\ Persisted'.treasury.reserveSol >= Persisted.treasury.reserveSol]_vars
    /\ [](\A e \in {d \in Served : d.res.ok /\ d.req.op \in {"trade", "create"}} :
            \E fee \in {IF e.req.op = "trade" THEN takeFee(e.req.sol).feeSol
                        ELSE IF e.req.initialSol >= LIVE_MIN_SOL
                        THEN takeFee(e.req.initialSol).feeSol ELSE 0} :
            \E dev \in {IF e.req.op = "trade" THEN TRADE_DEV_PCT ELSE CREATE_DEV_PCT} :
            \E reserve \in {IF e.req.op = "trade" THEN TRADE_RESERVE_PCT
                            ELSE CREATE_RESERVE_PCT} :
               /\ 100 * (e.post.treasury.devSol - ensureTreasury(e.pre, 0).treasury.devSol)
                     = fee * dev
               /\ 100 * (e.post.treasury.reserveSol
                           - ensureTreasury(e.pre, 0).treasury.reserveSol)
                     = fee * reserve)

\* what the request of e added to the bucket of wallet w
Gain(e, w, kind) ==
    IF w = "" THEN 0
    ELSE BucketOf(e.post, w, kind).totalSol - BucketOf(e.pre, w, kind).totalSol

\* C29: on every successful trade what is added to devSol, to reserveSol, to the
\* rewards of the coin's creator and to the referral rewards of the trader's
\* referrer sums to the fee of the trade, with a referrer bound or without.
C29_FeeDistributedInFull ==
    \A e \in {d \in Served : d.res.ok /\ d.req.op = "trade"} :
       (e.post.treasury.devSol - ensureTreasury(e.pre, 0).treasury.devSol)
       + (e.post.treasury.reserveSol - ensureTreasury(e.pre, 0).treasury.reserveSol)
       + Gain(e, CoinOf(e.pre, e.req.coinId).creatorWallet, "CREATOR")
       + Gain(e, Get(e.pre.referrals, e.req.wallet, ""), "REF")
          = takeFee(e.req.sol).feeSol

C24_CoinIdentityFixed ==
    [][\A c \in {Persisted.coins[i] : i \in 1..Len(Persisted.coins)} :
          \E d \in {Persisted'.coins[i] : i \in 1..Len(Persisted'.coins)} :
             /\ d.id = c.id
             /\ d.creatorWallet = c.creatorWallet
             /\ d.createdAt = c.createdAt
             /\ d.totalSupply = c.totalSupply
             /\ d.status = c.status]_vars

\* two coins, one of them traded, and a withdrawal served
C24_Witness ==
    /\ Len(Persisted.coins) = 2
    /\ \E e \in Served : e.res.ok /\ e.req.op = "trade"
    /\ \E e \in Served : e.res.ok /\ e.req.op = "withdraw"

\* C26: after a logPush the log holds at most 300 entries, the new entry is at
\* its head and the entries of before follow in their order, without the last
\* of them (the oldest) when the log was full.
C26_LogBounded ==
    \A e \in Called("logPush") :
       /\ Len(e.res.logs) <= LOG_CAP
       /\ e.res.logs[1] = e.req.item
       /\ Tail(e.res.logs) = IF Len(e.req.arg.logs) < LOG_CAP THEN e.req.arg.logs
                             ELSE SubSeq(e.req.arg.logs, 1, LOG_CAP - 1)

\* a push on a full log, whose last entry is then the one that was next to last
C26_Witness ==
    \E e \in Called("logPush") :
        /\ Len(e.req.arg.logs) = LOG_CAP
        /\ Len(e.res.logs) = LOG_CAP
        /\ e.res.logs[LOG_CAP] = e.req.arg.logs[LOG_CAP - 1]
        /\ e.req.arg.logs[LOG_CAP] # e.req.arg.logs[LOG_CAP - 1]

\* C27: an issue-coin request whose symbol has fewer than 2 or more than 10
\* characters is refused, and every coin of the store has a symbol of 2 to 10
\* characters.
C27_SymbolLength ==
    /\ \A e \in {history[k] : k \in Answered} :
          (e.req.op = "create"
             /\ (Len(toUpperCase(e.req.symbol)) < 2 \/ Len(toUpperCase(e.req.symbol)) > 10))
          => ~e.res.ok
    /\ \A c \in {Persisted.coins[i] : i \in 1..Len(Persisted.coins)} :
          Len(c.symbol) >= 2 /\ Len(c.symbol) <= 10

\* C28: in file mode, no flush failing, the file on disk is from some point on
\* equal to the in-memory snapshot (the requests are finitely many).
C28_DiskCatchesUp == <>[](fileCache = Null \/ disk = JSONstringify(fileCache))

\* C31: after a successful buy or sell the coin's mc is at least the price floor;
\* a buy does not lower mc and a sell does not raise it, however large the sol.
C31_McFloorAndDirection ==
    \A e \in Called("tradeMc") :
        /\ e.res >= PRICE_FLOOR
        /\ e.req.side = "buy" => e.res >= e.req.arg
        /\ e.req.side = "sell" => e.res <= e.req.arg

\* C32: for one totalSupply and one sol, and two stored mc values m1 <= m2 of a
\* LIVE coin, 0 and values below the floor included, the tokens computed at m2
\* are no more than the tokens computed at m1.
C32_PricingMonotonic ==
    \A i, j \in Answered :
        (/\ history[i].req.op = "tradeTokens"
         /\ history[j].req.op = "tradeTokens"
         /\ history[i].req.sol = history[j].req.sol
         /\ history[i].req.coin.totalSupply = history[j].req.coin.totalSupply
         /\ history[i].req.coin.mc <= history[j].req.coin.mc)
        => history[j].res <= history[i].res

\* C33: every wallet w with a referral edge has a profile whose referrer is
\* referrals[w], and referrals[w] is not empty and is not w.
C33_ReferralMirrored ==
    \A s \in {Persisted} :
        \A w \in DOMAIN s.referrals :
            /\ s.referrals[w] # ""
            /\ s.referrals[w] # w
            /\ w \in DOMAIN s.profiles
            /\ s.profiles[w].referrer = s.referrals[w]

\* a wallet has bound its referrer and has traded since
C33_Witness ==
    \E s \in {Persisted} :
        /\ pc[1] = "idle"
        /\ WalletB \in DOMAIN s.referrals
        /\ s.logs # <<>>
        /\ s.logs[1].type = "trade"
        /\ s.logs[1].wallet = WalletB
        /\ s.profiles[WalletB].txs # <<>>
        /\ s.profiles[WalletB].referrer = WalletA

\* a snapshot that some operation has written into
Mutated(store) ==
    \/ store.coins # <<>>
    \/ DOMAIN store.profiles # {}
    \/ DOMAIN store.referrals # {}
    \/ store.logs # <<>>

\* C34: in remote mode, whatever the interleaving of two requests that both found
\* the row absent, the upsert of the default store by one of them is never
\* applied to a row in which the other has persisted a mutated store.
C34_InitKeepsSnapshot ==
    [][\A h \in Handlers :
          (pc[h] = "init" /\ remote # NoRow /\ remote' # remote)
             => ~Mutated(remote.data)]_vars

\* C35: in file mode, whatever the interleaving of the handlers, two requests
\* that both call readDB before the first load has ended included, the in-memory
\* snapshot that a readDB returns holds the effect of every operation answered
\* ok:true before; and once a load has ended no readDB reads the file again.
C35_CacheKeepsEffects ==
    /\ mode = "file" =>
          \A st \in {Persisted} :
              \A k \in Answered : history[k].res.ok => Effected(history[k], st)
    /\ (fileLoaded /\ fileCache # Null) => \A h \in Handlers : pc[h] # "readfile"

C37_TotalsAreSums ==
    \A s \in {Persisted} :
        \A w \in DOMAIN s.profiles :
            /\ s.profiles[w].rewards.totalSol = SumMap(s.profiles[w].rewards.byCoin)
            /\ s.profiles[w].referralRewards.totalSol
                  = SumMap(s.profiles[w].referralRewards.byWallet)

\* the creator, who is the buyer's referrer, has withdrawn the creator rewards
\* of a buy and still holds the referral rewards of it
C37_Witness ==
    \E e \in {d \in Served : d.res.ok /\ d.req.op = "withdraw"} :
        /\ pc[1] = "idle"
        /\ e = history[Len(history)]
        /\ WithdrawKind(e.req) = "CREATOR"
        /\ e.res.sol > 0
        /\ e.pre.profiles[e.req.wallet].rewards.byCoin # EmptyMap
        /\ e.post.profiles[e.req.wallet].rewards = [totalSol |-> 0, byCoin |-> EmptyMap]
        /\ e.post.profiles[e.req.wallet].referralRewards.totalSol > 0
        /\ DOMAIN e.post.profiles[e.req.wallet].referralRewards.byWallet = {WalletB}

\* C38: when the trader of a successful buy or sell is the coin's creator, the
\* creator share of the fee is in that wallet's rewards after the trade, total
\* and entry of the coin, and so are the trade's tx and its change of the holding.
C38_CreatorTradeKeepsCredit ==
    \A e \in {d \in Served : d.res.ok /\ d.req.op = "trade"} :
        e.req.wallet = CoinOf(e.pre, e.req.coinId).creatorWallet =>
           \E share \in {PctOf(takeFee(e.req.sol).feeSol, TRADE_CREATOR_PCT)},
              tokens \in {TradeTokens(CoinOf(e.pre, e.req.coinId), e.req.sol)},
              have \in {Held(e.pre, e.req.wallet, e.req.coinId)} :
              /\ Gain(e, e.req.wallet, "CREATOR") = share
              /\ Get(e.post.profiles[e.req.wallet].rewards.byCoin, e.req.coinId, 0)
                    = Get(e.pre.profiles[e.req.wallet].rewards.byCoin, e.req.coinId, 0)
                      + share
              /\ e.post.profiles[e.req.wallet].txs[1].id = e.res.txId
              /\ Held(e.post, e.req.wallet, e.req.coinId)
                    = IF e.req.side = "buy" THEN have + tokens
                      ELSE have - Min(have, tokens)

\* the creator has bought and then sold its own coin, with a share each time
C38_Witness ==
    \E i, j \in Answered :
        /\ i < j
        /\ history[i].res.ok /\ history[j].res.ok
        /\ history[i].req.op = "trade" /\ history[i].req.side = "buy"
        /\ history[j].req.op = "trade" /\ history[j].req.side = "sell"
        /\ history[i].req.wallet = WalletA /\ history[j].req.wallet = WalletA
        /\ CoinOf(history[j].pre, history[j].req.coinId).creatorWallet = WalletA
        /\ Gain(history[j], WalletA, "CREATOR") > 0
        /\ history[j].post.profiles[WalletA].rewards.totalSol
              > Gain(history[j], WalletA, "CREATOR")

====
